---- MODULE Spec2Model ----
(***************************************************************************)
(* pinion: the LZ4I container decoder (src/src/lz4i_decoder.rs) and the    *)
(* display-buffer handling of the viewer shell (src/src/main.rs).          *)
(*                                                                         *)
(* 32-bit and 64-bit quantities are kept at their real width.  They are    *)
(* written as little-endian sequences of base-256 digits (digit 1 is the   *)
(* least significant byte), so that 0xFFFFFFFF * 0xFFFFFFFF * 255 is       *)
(* computed exactly.                                                       *)
(***************************************************************************)
EXTENDS Integers, Sequences, FiniteSets, TLC

VARIABLES
    \* ---- decoder (read_lz4i / lz4_decomp) ----
    host,        \* byte order of the machine: "little" or "big"
    ptrBits,     \* width of usize on the target: 32 or 64
    file,        \* contents of the file on disk (sequence of bytes), or NoFile
    pc,          \* position inside read_lz4i
    raw_lz4i,    \* the bytes fs::read returned
    oob,         \* a byte at an offset >= raw_lz4i.len() was read through the header cast
    maxRead,     \* highest file offset read so far through the header (-1: none)
    width,       \* read_lz4i's width  (line 49), u32 digits
    height,      \* read_lz4i's height (line 50), u32 digits
    dcWidth,     \* lz4_decomp's width  (line 25)
    dcHeight,    \* lz4_decomp's height (line 26)
    dst_capacity,\* lz4_decomp's dst_capacity (usize digits)
    dst,         \* the destination buffer: [allocated, len]
    call,        \* the arguments LZ4_decompress_safe received
    ret,         \* what LZ4_decompress_safe returned (i32), dropped by the code
    validated,   \* the checks that have been passed so far
    result,      \* what read_lz4i returned
    \* ---- viewer shell (main / read_image) ----
    BUF,         \* capacity reserved for the global display buffer (0: None)
    DATA_LEN,    \* global DATA_LEN (-1: None)
    WIDTH,       \* global WIDTH  (-1: None)
    HEIGHT,      \* global HEIGHT (-1: None)
    writeEnd,    \* highest end offset of a copy into BUF so far
    lastImage,   \* the post-resize image of the last read_image call
    loads        \* number of read_image calls so far

decVars == <<host, ptrBits, file, pc, raw_lz4i, oob, maxRead, width, height,
             dcWidth, dcHeight, dst_capacity, dst, call, ret, validated, result>>
viewVars == <<BUF, DATA_LEN, WIDTH, HEIGHT, writeEnd, lastImage, loads>>
vars == <<decVars, viewVars>>

-----------------------------------------------------------------------------
(* Bounds of the model *)

\* longest compressed payload after the header
MaxPayload == 2
\* number of image loads in one run of the viewer
MaxLoads == 2

-----------------------------------------------------------------------------
(* Exact arithmetic on little-endian base-256 digit sequences *)

Reverse(s) == [i \in 1..Len(s) |-> s[Len(s) + 1 - i]]

\* zero-extension or truncation to n digits
Ext(d, n) == [i \in 1..n |-> IF i <= Len(d) THEN d[i] ELSE 0]

HighZero(d, k) == \A i \in (k + 1)..Len(d) : d[i] = 0

NumEq(a, b) ==
    LET n == IF Len(a) > Len(b) THEN Len(a) ELSE Len(b)
    IN  Ext(a, n) = Ext(b, n)

RECURSIVE LeqFrom(_, _, _)
LeqFrom(a, b, i) ==
    IF i = 0 THEN TRUE
    ELSE IF a[i] < b[i] THEN TRUE
    ELSE IF a[i] > b[i] THEN FALSE
    ELSE LeqFrom(a, b, i - 1)

NumLeq(a, b) ==
    LET n == IF Len(a) > Len(b) THEN Len(a) ELSE Len(b)
    IN  LeqFrom(Ext(a, n), Ext(b, n), n)

RECURSIVE ColSum(_, _, _, _)
ColSum(a, b, k, i) ==
    IF i = 0 THEN 0
    ELSE (IF (k + 1 - i) \in 1..Len(b) THEN a[i] * b[k + 1 - i] ELSE 0)
         + ColSum(a, b, k, i - 1)

RECURSIVE Carry(_, _, _)
Carry(a, b, k) ==
    IF k = 0 THEN 0
    ELSE (ColSum(a, b, k, Len(a)) + Carry(a, b, k - 1)) \div 256

\* the exact product, Len(a) + Len(b) digits
MulFull(a, b) ==
    [k \in 1..(Len(a) + Len(b)) |->
        (ColSum(a, b, k, Len(a)) + Carry(a, b, k - 1)) % 256]

\* a small natural as n digits
ToDigits(x, n) == [i \in 1..n |-> (x \div (256 ^ (i - 1))) % 256]

-----------------------------------------------------------------------------
(* The container decoder: src/src/lz4i_decoder.rs *)

\* mem::size_of::<Lz4iHeader>() of the packed struct: 4 + 4 + 4 + 1 + 1
HEADER_SIZE == 14

\* b"lz4i"
LZ4I_SIG == <<108, 122, 52, 105>>

None == <<>>

\* The n bytes at file offset off as seen through the header pointer.  Bytes
\* past the end of the vector are not the file's: they come out as g.
HeaderField(raw, off, n, g) ==
    [i \in 1..n |-> IF off + i <= Len(raw) THEN raw[off + i] ELSE g[i]]

\* a u32 field of the packed struct, loaded in the byte order of the host
LoadU32(b) == IF host = "little" THEN b ELSE Reverse(b)

swap_bytes(x) == Reverse(x)

to_be_noswap(x) == x

\* u32::to_be: a byte swap on a little-endian host, the identity on a
\* big-endian one
to_be(x) == IF host = "little" THEN swap_bytes(x) ELSE x

SigMatchesPrefix(sig) == SubSeq(sig, 1, 3) = SubSeq(LZ4I_SIG, 1, 3)

\* header.sig[..].eq(b"lz4i")
SigMatches(sig) == sig = LZ4I_SIG

wrapping_mul(a, b) == Ext(MulFull(a, b), 4)

\* u32::checked_mul: None when the product does not fit in 32 bits
checked_mul(a, b) ==
    LET p == MulFull(a, b)
    IN  IF HighZero(p, 4) THEN Ext(p, 4) ELSE None

\* `u8 as u32`
u8_as_u32(c) == <<c, 0, 0, 0>>

\* `u32 as usize` / `usize` of the target
as_usize(x) == Ext(x, ptrBits \div 8)

\* `usize as i32`: the low 32 bits, read as two's complement
as_i32(x) ==
    LET t == Ext(x, 4)
    IN  (IF t[4] >= 128 THEN t[4] - 256 ELSE t[4]) * 16777216
        + t[3] * 65536 + t[2] * 256 + t[1]

\* vec![0; n] panics with "capacity overflow" above isize::MAX
AllocFits(n) == n[Len(n)] < 128

\* What LZ4_decompress_safe may return: a negative error code, or the
\* number of bytes written, never more than the capacity it was given.
RetChoices(cap) ==
    IF cap < 0 THEN {-1}
    ELSE {-1} \cup {r \in {0, 1, 2, 3, cap - 1, cap} : 0 <= r /\ r <= cap}

\* ImageBuffer::from_raw: Some iff channel_count * width * height fits in
\* usize and the buffer holds at least that many bytes
FromRawFits(n, w, h, len) ==
    LET need == MulFull(MulFull(w, h), <<n>>)
    IN  HighZero(need, ptrBits \div 8) /\ NumLeq(need, len)

VariantSwapped(c) == IF c = 3 THEN "RGBA8" ELSE "RGB8"

\* DynamicImage::ImageRgb8 for 3 channels, DynamicImage::ImageRgba8 for 4
Variant(c) == IF c = 3 THEN "RGB8" ELSE "RGBA8"

NoResult ==
    [kind |-> "none", variant |-> "none", width |-> None, height |-> None,
     len |-> None]

Err(k) == [NoResult EXCEPT !.kind = k]

NoCall == [made |-> FALSE, compressed_size |-> 0, dst_capacity |-> 0]

NoDst == [allocated |-> FALSE, len |-> None]

\* what an out-of-bounds load through the header pointer may produce
Garbage4 == {<<0, 0, 0, 0>>, LZ4I_SIG}

-----------------------------------------------------------------------------
(* Inputs *)

SigChoices == {LZ4I_SIG, <<108, 122, 52, 106>>, <<76, 122, 52, 105>>}

\* the four bytes of a width or height field as they stand in the file
U32Choices ==
    {<<0, 0, 0, 0>>, <<0, 0, 0, 1>>, <<0, 0, 0, 2>>, <<0, 0, 1, 0>>,
     <<1, 0, 0, 0>>, <<64, 0, 0, 0>>, <<128, 0, 0, 0>>,
     <<255, 255, 255, 255>>}

ChannelChoices == {0, 1, 3, 4, 5, 255}

Payload(n) == [i \in 1..n |-> 17]

Prefixes(f) == {SubSeq(f, 1, n) : n \in 0..Len(f)}

Files ==
    UNION {Prefixes(s \o w \o h \o <<c, 0>> \o Payload(MaxPayload)) :
             s \in SigChoices, w \in U32Choices, h \in U32Choices,
             c \in ChannelChoices}

ViewerIdle ==
    /\ BUF = 0
    /\ DATA_LEN = -1
    /\ WIDTH = -1
    /\ HEIGHT = -1
    /\ writeEnd = 0
    /\ lastImage = <<0, 0>>
    /\ loads = 0

Init ==
    /\ host \in {"little", "big"}
    /\ ptrBits \in {32, 64}
    /\ file \in [exists : {TRUE}, bytes : Files]
             \cup {[exists |-> FALSE, bytes |-> <<>>]}
    /\ pc = "read"
    /\ raw_lz4i = <<>>
    /\ oob = FALSE
    /\ maxRead = -1
    /\ width = None
    /\ height = None
    /\ dcWidth = None
    /\ dcHeight = None
    /\ dst_capacity = None
    /\ dst = NoDst
    /\ call = NoCall
    /\ ret = 0
    /\ validated = {}
    /\ result = NoResult
    /\ ViewerIdle

-----------------------------------------------------------------------------
(* read_lz4i, one action per step *)

Finish(r) ==
    /\ pc' = "done"
    /\ result' = r

Max(a, b) == IF a > b THEN a ELSE b

\* line 45: fs::read(file_path)?
ReadFile ==
    /\ pc = "read"
    /\ IF file.exists
         THEN /\ raw_lz4i' = file.bytes
              /\ pc' = "sig"
              /\ UNCHANGED result
         ELSE /\ Finish(Err("IoError"))
              /\ UNCHANGED raw_lz4i
    /\ UNCHANGED <<host, ptrBits, file, oob, maxRead, width, height, dcWidth,
                   dcHeight, dst_capacity, dst, call, ret, validated, viewVars>>

\* lines 46-47: the cast of the vector's pointer to &Lz4iHeader and the
\* signature test.  No length is looked at: with fewer than 4 bytes the load
\* runs past the vector, and the build may fault or see anything.
CheckSig ==
    /\ pc = "sig"
    /\ LET short == Len(raw_lz4i) < 4
       IN  /\ oob' = (oob \/ short)
           /\ maxRead' = Max(maxRead, 3)
           /\ \/ /\ short
                 /\ Finish(Err("Crash"))
                 /\ UNCHANGED validated
              \/ \E g \in (IF short THEN Garbage4 ELSE {<<0, 0, 0, 0>>}) :
                    IF SigMatches(HeaderField(raw_lz4i, 0, 4, g))
                    THEN /\ pc' = "dims"
                         /\ validated' = validated \cup {"sig"}
                         /\ UNCHANGED result
                    ELSE /\ Finish(Err("InvalidSignature"))
                         /\ UNCHANGED validated
    /\ UNCHANGED <<host, ptrBits, file, raw_lz4i, width, height, dcWidth,
                   dcHeight, dst_capacity, dst, call, ret, viewVars>>

\* lines 49-50: header.width.to_be(), header.height.to_be()
ReadDims ==
    /\ pc = "dims"
    /\ LET short == Len(raw_lz4i) < 12
       IN  /\ oob' = (oob \/ short)
           /\ maxRead' = Max(maxRead, 11)
           /\ \/ /\ short
                 /\ Finish(Err("Crash"))
                 /\ UNCHANGED <<width, height>>
              \/ \E g \in (IF short THEN Garbage4 ELSE {<<0, 0, 0, 0>>}) :
                    /\ width' = to_be(LoadU32(HeaderField(raw_lz4i, 4, 4, g)))
                    /\ height' = to_be(LoadU32(HeaderField(raw_lz4i, 8, 4, g)))
                    /\ pc' = "slice"
                    /\ UNCHANGED result
    /\ UNCHANGED <<host, ptrBits, file, raw_lz4i, dcWidth, dcHeight,
                   dst_capacity, dst, call, ret, validated, viewVars>>

\* lines 52-54: &raw_lz4i[header_size..] panics when the vector is shorter
\* than the header
SlicePayload ==
    /\ pc = "slice"
    /\ IF Len(raw_lz4i) < HEADER_SIZE
         THEN Finish(Err("Panic"))
         ELSE /\ pc' = "size"
              /\ UNCHANGED result
    /\ UNCHANGED <<host, ptrBits, file, raw_lz4i, oob, maxRead, width, height,
                   dcWidth, dcHeight, dst_capacity, dst, call, ret, validated,
                   viewVars>>

src == SubSeq(raw_lz4i, HEADER_SIZE + 1, Len(raw_lz4i))

channels == raw_lz4i[13]

\* lines 25-31 of lz4_decomp: the two checked multiplications
ComputeSize ==
    /\ pc = "size"
    /\ LET w == to_be(LoadU32(HeaderField(raw_lz4i, 4, 4, <<0, 0, 0, 0>>)))
           h == to_be(LoadU32(HeaderField(raw_lz4i, 8, 4, <<0, 0, 0, 0>>)))
           wh == checked_mul(w, h)
           whc == IF wh = None THEN None
                  ELSE checked_mul(wh, u8_as_u32(channels))
       IN  /\ dcWidth' = w
           /\ dcHeight' = h
           /\ maxRead' = Max(maxRead, 12)
           /\ IF whc = None
                THEN /\ Finish(Err("SizeOverflow"))
                     /\ UNCHANGED <<dst_capacity, validated>>
                ELSE /\ dst_capacity' = as_usize(whc)
                     /\ validated' = validated \cup {"size"}
                     /\ pc' = "alloc"
                     /\ UNCHANGED result
    /\ UNCHANGED <<host, ptrBits, file, raw_lz4i, oob, width, height, dst,
                   call, ret, viewVars>>

\* line 32: vec![0; dst_capacity]
Alloc ==
    /\ pc = "alloc"
    /\ IF AllocFits(dst_capacity)
         THEN /\ dst' = [allocated |-> TRUE, len |-> dst_capacity]
              /\ pc' = "call"
              /\ UNCHANGED result
         ELSE /\ Finish(Err("CapacityOverflow"))
              /\ UNCHANGED dst
    /\ UNCHANGED <<host, ptrBits, file, raw_lz4i, oob, maxRead, width, height,
                   dcWidth, dcHeight, dst_capacity, call, ret, validated,
                   viewVars>>

\* lines 33-41: the call of LZ4_decompress_safe; its value is dropped and
\* Ok(dst) is returned whatever it was
CallPrimitive ==
    /\ pc = "call"
    /\ LET cap == as_i32(dst_capacity)
           n == as_i32(as_usize(ToDigits(Len(src), 4)))
       IN  /\ call' = [made |-> TRUE, compressed_size |-> n,
                        dst_capacity |-> cap]
           /\ ret' \in RetChoices(cap)
    /\ pc' = "build"
    /\ UNCHANGED <<host, ptrBits, file, raw_lz4i, oob, maxRead, width, height,
                   dcWidth, dcHeight, dst_capacity, dst, validated, result,
                   viewVars>>

\* lines 56-68: the channel test and ImageBuffer::from_raw
BuildImage ==
    /\ pc = "build"
    /\ IF channels \in {3, 4}
         THEN /\ validated' = validated \cup {"channels"}
              /\ IF FromRawFits(channels, width, height, dst.len)
                   THEN Finish([kind |-> "Ok", variant |-> Variant(channels),
                                width |-> width, height |-> height,
                                len |-> dst.len])
                   ELSE Finish(Err("BufferLengthMismatch"))
         ELSE /\ Finish(Err("UnsupportedChannels"))
              /\ UNCHANGED validated
    /\ UNCHANGED <<host, ptrBits, file, raw_lz4i, oob, maxRead, width, height,
                   dcWidth, dcHeight, dst_capacity, dst, call, ret, viewVars>>

Next ==
    \/ ReadFile
    \/ CheckSig
    \/ ReadDims
    \/ SlicePayload
    \/ ComputeSize
    \/ Alloc
    \/ CallPrimitive
    \/ BuildImage

Spec == Init /\ [][Next]_vars

-----------------------------------------------------------------------------
(* The viewer shell: main and read_image of src/src/main.rs.               *)
(* In ViewerSpec pc is "main" before main has run and "loop" while the     *)
(* message loop dispatches commands.                                       *)

\* the display area: images larger than this are resized
MAX_WIDTH == 640
MAX_HEIGHT == 480

\* v.reserve(640 * 480 * 3)
BUF_RESERVE == 640 * 480 * 3

\* the length test of read_image
DATA_LIMIT == 640 * 480 * 3

\* dimensions of the decoded images offered to the viewer
Widths0 ==
    {1, 2, 3, 4, 5, 6, 7, 8, 478, 479, 480, 637, 638, 639, 640, 641, 800,
     1000, 1280, 2000}

Heights0 == {1, 2, 3, 479, 480, 481, 600, 960, 1000}

\* new_size of read_image.  The tests are made in f32: `w / h > 1.333` is
\* 1000 w > 1333 h, and (480.0 / h * w) as u32 is the floor of 480 w / h,
\* or one less when that quotient is a whole number that the two rounded
\* f32 operations reach from below.
NewSizeChoices(w, h) ==
    IF 1000 * w > 1333 * h THEN {640}
    ELSE IF w > h
         THEN LET q == (480 * w) \div h
              IN  IF (480 * w) % h = 0 THEN {q - 1, q} ELSE {q}
         ELSE {480}

\* a / b rounded down, or rounded to nearest, never below 1
ScaledChoices(a, b) ==
    {Max(1, a \div b), Max(1, (2 * a + b) \div (2 * b))}

\* DynamicImage::resize(s, s, _): the largest size of the same aspect ratio
\* inside the s x s box
ResizeDims(w, h, s) ==
    IF h <= w
    THEN {<<s, nh>> : nh \in ScaledChoices(h * s, w)}
    ELSE {<<nw, s>> : nw \in ScaledChoices(w * s, h)}

\* lines 222-236: the image after the optional resize
PostResize(w, h) ==
    IF w > MAX_WIDTH \/ h > MAX_HEIGHT
    THEN UNION {ResizeDims(w, h, s) : s \in NewSizeChoices(w, h)}
    ELSE {<<w, h>>}

ScanLineUnrounded(scan_line, remain) == scan_line + 4

\* line 249: scan_line + 4 - remain
ScanLineWithPadding(scan_line, remain) == scan_line + 4 - remain

\* lines 243-263: [data_len, end] where end is the end offset of the last
\* byte copied into BUF
CopyToBuf(w, h) ==
    LET remain == (3 * w) % 4
        scan_line == 3 * w
        stride == ScanLineWithPadding(scan_line, remain)
    IN  IF remain > 0
        THEN [data_len |-> stride * h,
              end |-> (h - 1) * stride + scan_line]
        ELSE [data_len |-> w * h * 3, end |-> w * h * 3]

ViewerInit ==
    /\ pc = "main"
    /\ host = "little"
    /\ ptrBits = 64
    /\ file = [exists |-> FALSE, bytes |-> <<>>]
    /\ raw_lz4i = <<>>
    /\ oob = FALSE
    /\ maxRead = -1
    /\ width = None
    /\ height = None
    /\ dcWidth = None
    /\ dcHeight = None
    /\ dst_capacity = None
    /\ dst = NoDst
    /\ call = NoCall
    /\ ret = 0
    /\ validated = {}
    /\ result = NoResult
    /\ ViewerIdle

\* main, lines 93-95: the display buffer is reserved once
Main ==
    /\ pc = "main"
    /\ pc' = "loop"
    /\ BUF' = BUF_RESERVE
    /\ UNCHANGED <<host, ptrBits, file, raw_lz4i, oob, maxRead, width, height,
                   dcWidth, dcHeight, dst_capacity, dst, call, ret, validated,
                   result, DATA_LEN, WIDTH, HEIGHT, writeEnd, lastImage,
                   loads>>

\* read_image, line 218: image::open fails and nothing is touched
OpenFails ==
    /\ pc = "loop"
    /\ loads < MaxLoads
    /\ loads' = loads + 1
    /\ UNCHANGED <<decVars, BUF, DATA_LEN, WIDTH, HEIGHT, writeEnd,
                   lastImage>>

\* read_image, lines 218-278, for a decoded image of w0 x h0 pixels
ReadImage ==
    /\ pc = "loop"
    /\ loads < MaxLoads
    /\ loads' = loads + 1
    /\ \E w0 \in Widths0, h0 \in Heights0 :
         \E img \in PostResize(w0, h0) :
            LET w == img[1]
                h == img[2]
                c == CopyToBuf(w, h)
            IN  /\ lastImage' = img
                /\ IF w * h * 3 <= DATA_LIMIT /\ BUF > 0
                     THEN /\ DATA_LEN' = c.data_len
                          /\ writeEnd' = Max(writeEnd, c.end)
                          /\ WIDTH' = w
                          /\ HEIGHT' = h
                     ELSE UNCHANGED <<DATA_LEN, writeEnd, WIDTH, HEIGHT>>
    /\ UNCHANGED <<decVars, BUF>>

ViewerNext ==
    \/ Main
    \/ OpenFails
    \/ ReadImage

ViewerSpec == ViewerInit /\ [][ViewerNext]_vars

-----------------------------------------------------------------------------
(* What the file says, read straight from its bytes *)

Done == pc = "done"

FileLen == Len(file.bytes)

\* the file holds a whole header
HasHeader == file.exists /\ FileLen >= HEADER_SIZE

FileSig == SubSeq(file.bytes, 1, 4)

\* file bytes 4..7 and 8..11 read as big-endian numbers
FileWidth == Reverse(SubSeq(file.bytes, 5, 8))
FileHeight == Reverse(SubSeq(file.bytes, 9, 12))
FileChannels == file.bytes[13]

\* width * height and width * height * channels, exactly
ExactPixels == MulFull(FileWidth, FileHeight)
ExactSize == MulFull(ExactPixels, <<FileChannels>>)

ValidSigFile == HasHeader /\ FileSig = LZ4I_SIG

\* the i32 v is the number written as the digits d
I32Is(v, d) == v >= 0 /\ NumEq(ToDigits(IF v >= 0 THEN v ELSE 0, 4), d)

\* d fits in a non-negative i32
FitsI32(d) == HighZero(d, 4) /\ d[4] < 128

-----------------------------------------------------------------------------
(* Claims about the decoder, checked under Spec *)

\* C1: when the size computation succeeded with N (for a header of 3 or 4
\* channels) and LZ4_decompress_safe returned anything but N, the call fails
\* with DecompressionFailed; an image is returned only after a return equal
\* to N.
C1_ReturnChecked ==
    (Done /\ call.made /\ FileChannels \in {3, 4}) =>
        /\ ~I32Is(ret, dst_capacity) => result.kind = "DecompressionFailed"
        /\ result.kind = "Ok" => I32Is(ret, dst_capacity)

\* C2: a file of 0 to 13 bytes fails with Truncated, and no byte at an
\* offset at or past its length is read.
C2_TruncatedRejected ==
    (file.exists /\ FileLen < HEADER_SIZE) =>
        /\ ~oob
        /\ Done => result.kind = "Truncated"

\* C3: when width * height or width * height * channels overflows, decode
\* fails with SizeOverflow and allocates nothing; a destination buffer that
\* is allocated has exactly width * height * channels bytes, never a wrapped
\* or truncated count.
C3_OverflowRejected ==
    ValidSigFile =>
        /\ dst.allocated => NumEq(dst.len, ExactSize)
        /\ (Done /\ ~(HighZero(ExactPixels, 4) /\ HighZero(ExactSize, 4))) =>
              (result.kind = "SizeOverflow" /\ ~dst.allocated /\ ~call.made)

\* C3 witness: width = height = 0xFFFFFFFF, channels = 4, whose product
\* overflows 64 bits as well, was rejected with SizeOverflow.
C3_Witness ==
    /\ Done
    /\ ValidSigFile
    /\ FileWidth = <<255, 255, 255, 255>>
    /\ FileHeight = <<255, 255, 255, 255>>
    /\ FileChannels = 4
    /\ ~HighZero(ExactSize, 8)
    /\ result.kind = "SizeOverflow"

C5_ChannelsRejected ==
    (Done /\ ValidSigFile /\ FileChannels \notin {3, 4}) =>
        result.kind = "UnsupportedChannels"

\* C6: a file whose first 4 bytes are not "lz4i" fails with InvalidSignature
\* and no byte after offset 3 takes part: nothing past the signature is read,
\* nothing is allocated and the primitive is not called.
C6_BadSignatureRejected ==
    (file.exists /\ FileLen >= 4 /\ FileSig # LZ4I_SIG) =>
        /\ Done => result.kind = "InvalidSignature"
        /\ maxRead <= 3
        /\ ~dst.allocated
        /\ ~call.made

\* C6 witness: a file of a full header that differs from "lz4i" in its
\* fourth byte only was rejected with InvalidSignature.
C6_Witness ==
    /\ Done
    /\ HasHeader
    /\ FileSig = <<108, 122, 52, 106>>
    /\ result.kind = "InvalidSignature"

\* C7: the width and height decode uses, in read_lz4i, in the size
\* computation and in the returned image, are the big-endian reading of file
\* bytes 4..7 and 8..11, on a little-endian and on a big-endian host.
C7_BigEndianDims ==
    (file.exists /\ FileLen >= 12) =>
        /\ width # None => (width = FileWidth /\ height = FileHeight)
        /\ dcWidth # None => (dcWidth = FileWidth /\ dcHeight = FileHeight)
        /\ (HasHeader /\ dst_capacity # None) =>
              NumEq(dst_capacity, ExactSize)
        /\ result.kind = "Ok" =>
              (result.width = FileWidth /\ result.height = FileHeight)

\* C7 witness: on a little-endian host a file whose width bytes are
\* 00 00 01 00 was decoded to an image 256 pixels wide.
C7_Witness ==
    /\ Done
    /\ host = "little"
    /\ HasHeader
    /\ SubSeq(file.bytes, 5, 8) = <<0, 0, 1, 0>>
    /\ result.kind = "Ok"
    /\ result.width = <<0, 1, 0, 0>>
    /\ dcWidth = <<0, 1, 0, 0>>

\* C8: the destination buffer is allocated and the primitive called only
\* after the signature and the channels value have been validated and the
\* size computation has succeeded.
C8_StagesInOrder ==
    (dst.allocated \/ call.made) => {"sig", "channels", "size"} \subseteq validated

\* C9: the capacity the primitive receives (for a header of 3 or 4 channels
\* whose size computation succeeded) equals the computed size N and the
\* length of the allocated buffer.
C9_CapacityExact ==
    (call.made /\ FileChannels \in {3, 4}) =>
        /\ I32Is(call.dst_capacity, dst_capacity)
        /\ NumEq(dst.len, dst_capacity)

-----------------------------------------------------------------------------
(* Claims about the viewer shell, checked under ViewerSpec *)

\* C10: after any sequence of loads every byte read_image copied into BUF
\* lies below 640 * 480 * 3, the capacity reserved in main, and DATA_LEN is
\* at most 640 * 480 * 3; the post-resize image is within 640 x 480.
C10_CopiesInsideBuf ==
    /\ writeEnd <= 640 * 480 * 3
    /\ DATA_LEN <= 640 * 480 * 3
    /\ pc = "loop" => BUF = 640 * 480 * 3
    /\ lastImage[1] <= 640 /\ lastImage[2] <= 480

\* C10 witness: a second load, of a 639 x 480 image (padded rows of 1920
\* bytes), filled the buffer to its last row.
C10_Witness ==
    /\ loads = 2
    /\ lastImage = <<639, 480>>
    /\ DATA_LEN = 1920 * 480
    /\ writeEnd = 479 * 1920 + 3 * 639

====
